---------------------------- MODULE Spec2Model ----------------------------
(***************************************************************************)
(* fs-guard: a Merkle tree (src/src/merkle.rs) generic over a hasher, and  *)
(* the padding stage of the SHA-256 engine (src/src/sha256.rs).            *)
(*                                                                         *)
(* Byte sequences (Vec<u8>, &[u8]) are sequences of naturals in 0..255.    *)
(* Option<T> is a sequence of length at most one: None is <<>> and Some(x) *)
(* is <<x>>.  Indices of the source are zero-based; a source index i is    *)
(* the TLA+ index i + 1.                                                   *)
(***************************************************************************)
EXTENDS Naturals, Sequences, FiniteSets, TLC

VARIABLES
    hasher,      \* MerkleTree.hasher: which HashFunction the tree was built with
    root,        \* MerkleTree.root: Option<MerkleNode>
    leaves,      \* MerkleTree.leaves: Vec<MerkleNode>
    lastBlocks,  \* history: the data_blocks of the most recent build (<<>> before any)
    rebuilt,     \* history: the most recent build ran on a tree that already held leaves
    call,        \* the last call: its name, its arguments and the value it returned,
                 \* until the caller has taken the value
    loop         \* the locals of the call in progress when loops are run stepwise

vars == <<hasher, root, leaves, lastBlocks, rebuilt, call, loop>>

(***************************************************************************)
(* Bounds of the model.                                                    *)
(***************************************************************************)
MaxBlocks == 4
MaxMsgLen == 130

\* The data blocks a caller passes to build and verify_proof.
BlockValues == {<<>>, <<1>>, <<2, 1>>}

\* The bytes a padded message is filled with.
FillBytes == {0, 128}

None == <<>>
Some(x) == <<x>>

RECURSIVE SeqsUpTo(_, _)
SeqsUpTo(S, n) ==
    IF n = 0 THEN {<<>>}
    ELSE LET shorter == SeqsUpTo(S, n - 1)
         IN  shorter \cup {Append(s, x) : s \in {t \in shorter : Len(t) = n - 1}, x \in S}

(***************************************************************************)
(* Vec<u8> ordering: `a < b` on byte vectors is lexicographic, a proper    *)
(* prefix being smaller.                                                   *)
(***************************************************************************)
RECURSIVE LexLess(_, _)
LexLess(a, b) ==
    IF b = <<>> THEN FALSE
    ELSE IF a = <<>> THEN TRUE
    ELSE IF Head(a) # Head(b) THEN Head(a) < Head(b)
    ELSE LexLess(Tail(a), Tail(b))

(***************************************************************************)
(* HashFunction: the tree is generic over the trait; these are three       *)
(* deterministic implementations of it.                                    *)
(*   sum8    one byte: the sum of the input bytes, wrapping at 256         *)
(*   poly16  two bytes, big-endian: a 16-bit polynomial hash               *)
(*   prefix2 the first two bytes of the input (output length varies)       *)
(***************************************************************************)
Hashers == {"sum8", "poly16", "prefix2"}

RECURSIVE Sum8(_)
Sum8(input) == IF input = <<>> THEN 0 ELSE (Head(input) + Sum8(Tail(input))) % 256

RECURSIVE Poly16(_, _)
Poly16(h, input) ==
    IF input = <<>> THEN h
    ELSE Poly16((h * 251 + Head(input) + 1) % 65536, Tail(input))

hash(h, input) ==
    CASE h = "sum8"    -> <<Sum8(input)>>
      [] h = "poly16"  -> LET v == Poly16(7, input) IN <<v \div 256, v % 256>>
      [] h = "prefix2" -> SubSeq(input, 1, IF Len(input) < 2 THEN Len(input) ELSE 2)

(***************************************************************************)
(* MerkleNode and MerkleTree.                                              *)
(***************************************************************************)
MerkleNode(h, l, r) == [hash |-> h, left |-> l, right |-> r]

\* MerkleTree::new
new(h) == [root |-> None, hasher |-> h, leaves |-> <<>>]

\* The tree the variables hold.
self == [root |-> root, hasher |-> hasher, leaves |-> leaves]

\* Mutant: the children's digests concatenated left then right, unsorted.
build_combined_hash_positional(left, right) == left.hash \o right.hash

\* build, lines 57-61: the two child digests, smaller first.
build_combined_hash(left, right) ==
    IF LexLess(left.hash, right.hash)
    THEN left.hash \o right.hash
    ELSE right.hash \o left.hash

\* Mutant: the for loop visits every index, not every second one.
RECURSIVE build_for_every_index(_, _, _, _)
build_for_every_index(h, nodes, i, next_level) ==
    IF i >= Len(nodes) THEN next_level
    ELSE LET left  == nodes[i + 1]
             right == IF i + 1 < Len(nodes) THEN nodes[i + 2] ELSE nodes[i + 1]
             parent_hash == hash(h, build_combined_hash(left, right))
         IN  build_for_every_index(h, nodes, i + 1,
                       Append(next_level, MerkleNode(parent_hash, Some(left), Some(right))))

\* Mutant: the last node of an odd level is carried up as it is, not paired
\* with itself.
RECURSIVE build_for_promotes_odd(_, _, _, _)
build_for_promotes_odd(h, nodes, i, next_level) ==
    IF i >= Len(nodes) THEN next_level
    ELSE IF i + 1 >= Len(nodes) THEN Append(next_level, nodes[i + 1])
    ELSE LET left  == nodes[i + 1]
             right == nodes[i + 2]
             parent_hash == hash(h, build_combined_hash(left, right))
         IN  build_for_promotes_odd(h, nodes, i + 2,
                       Append(next_level, MerkleNode(parent_hash, Some(left), Some(right))))

\* build, lines 49-70: the for loop over the pairs of one level, from index i.
RECURSIVE build_for(_, _, _, _)
build_for(h, nodes, i, next_level) ==
    IF i >= Len(nodes) THEN next_level
    ELSE LET left  == nodes[i + 1]
             right == IF i + 1 < Len(nodes) THEN nodes[i + 2] ELSE nodes[i + 1]
             parent_hash == hash(h, build_combined_hash(left, right))
         IN  build_for(h, nodes, i + 2,
                       Append(next_level, MerkleNode(parent_hash, Some(left), Some(right))))

\* build, lines 46-73: one pass of the while loop's body.
build_level(h, nodes) == build_for(h, nodes, 0, <<>>)

\* build, lines 46-73: the while loop.
RECURSIVE build_while(_, _)
build_while(h, nodes) ==
    IF Len(nodes) > 1 THEN build_while(h, build_level(h, nodes)) ELSE nodes

\* build, lines 35-42: one leaf per data block, in order.
build_leaves(h, data_blocks) ==
    [k \in 1..Len(data_blocks) |-> MerkleNode(hash(h, data_blocks[k]), None, None)]

\* Mutant: the root is assigned only when a node is left.
build_root_keeps(t, nodes) == IF nodes = <<>> THEN t.root ELSE Some(nodes[1])

\* build, line 75: nodes.into_iter().next()
build_root(t, nodes) == IF nodes = <<>> THEN None ELSE Some(nodes[1])

\* Mutant: the new leaves are appended to the stored ones.
build_store_leaves_extend(t, new_leaves) == t.leaves \o new_leaves

\* build, line 35: the leaves are assigned, not extended.
build_store_leaves(t, new_leaves) == new_leaves

\* MerkleTree::build
build(t, data_blocks) ==
    LET new_leaves == build_store_leaves(t, build_leaves(t.hasher, data_blocks))
        nodes      == build_while(t.hasher, new_leaves)
    IN  [root |-> build_root(t, nodes), hasher |-> t.hasher, leaves |-> new_leaves]

\* MerkleTree::root_hash
root_hash(t) == IF t.root = None THEN None ELSE Some(t.root[1].hash)


(***************************************************************************)
(* generate_proof.                                                         *)
(***************************************************************************)
\* Mutant: the bound check is off by one.
proof_out_of_range_strict(t, index) == index > Len(t.leaves)

\* generate_proof, line 85: the index is beyond the stored leaves.
proof_out_of_range(t, index) == index >= Len(t.leaves)

\* generate_proof, lines 130-134: the two child digests, smaller first.
proof_combined_hash(left, right) ==
    IF LexLess(left.hash, right.hash)
    THEN left.hash \o right.hash
    ELSE right.hash \o left.hash

\* Mutant: the index is not halved.
proof_parent_index_stale(current_index) == current_index

\* generate_proof, line 127: the index of the parent in the next level.
proof_parent_index(current_index) == current_index \div 2

\* generate_proof, line 117: the pair at i holds the current node.
proof_on_path(i, current_index) == i = current_index \/ i + 1 = current_index

\* generate_proof, lines 117-126: the digest of the current node's partner is
\* pushed onto the proof.
proof_push(proof, i, current_index, left, right) ==
    IF proof_on_path(i, current_index)
    THEN Append(proof, IF i = current_index THEN right.hash ELSE left.hash)
    ELSE proof

\* generate_proof, lines 117-128: the index moves to the parent.
proof_next_index(i, current_index) ==
    IF proof_on_path(i, current_index) THEN proof_parent_index(current_index)
    ELSE current_index

\* generate_proof, lines 105-147: the for loop over the pairs of one level, from
\* index i. current_index is updated inside the loop and read by its later passes.
RECURSIVE proof_for(_, _, _, _, _, _)
proof_for(h, nodes, i, next_level, proof, current_index) ==
    IF i >= Len(nodes)
    THEN [nodes |-> next_level, proof |-> proof, current_index |-> current_index]
    ELSE LET left  == nodes[i + 1]
             right == IF i + 1 < Len(nodes) THEN nodes[i + 2] ELSE left
             parent_hash == hash(h, proof_combined_hash(left, right))
         IN  proof_for(h, nodes, i + 2,
                       Append(next_level, MerkleNode(parent_hash, None, None)),
                       proof_push(proof, i, current_index, left, right),
                       proof_next_index(i, current_index))

\* generate_proof, lines 102-150: one pass of the while loop's body, from the
\* locals [nodes, proof, current_index] to their values after `nodes = next_level`.
proof_level(h, s) == proof_for(h, s.nodes, 0, <<>>, s.proof, s.current_index)

\* generate_proof, lines 102-150: the while loop.
RECURSIVE proof_while(_, _)
proof_while(h, s) ==
    IF Len(s.nodes) > 1 THEN proof_while(h, proof_level(h, s)) ELSE s

\* MerkleTree::generate_proof
generate_proof(t, index) ==
    IF proof_out_of_range(t, index) THEN None
    ELSE Some(proof_while(t.hasher,
                          [nodes |-> t.leaves, proof |-> <<>>, current_index |-> index]).proof)

(***************************************************************************)
(* verify_proof. The debug and the release loop (lines 163-174, 179-188)   *)
(* differ only in what they print.                                         *)
(***************************************************************************)
\* Mutant: the running digest always first, unsorted.
verify_combined_hash_positional(h, sibling_hash) == h \o sibling_hash

\* verify_proof, lines 181-185: the running digest and the sibling, smaller first.
verify_combined_hash(h, sibling_hash) ==
    IF LexLess(h, sibling_hash) THEN h \o sibling_hash ELSE sibling_hash \o h

\* verify_proof, lines 179-188: one pass of the loop over the proof.
verify_step(h, cur, sibling_hash) == hash(h, verify_combined_hash(cur, sibling_hash))

\* verify_proof, lines 179-188: the loop over the proof, from entry k (zero-based).
RECURSIVE verify_for(_, _, _, _)
verify_for(h, cur, proof, k) ==
    IF k >= Len(proof) THEN cur
    ELSE verify_for(h, verify_step(h, cur, proof[k + 1]), proof, k + 1)

\* Mutant: `<=` for `==`.
verify_matches_le(h, expected_root) == ~LexLess(expected_root, h)

\* verify_proof, line 197
verify_matches(h, expected_root) == h = expected_root

\* MerkleTree::verify_proof
verify_proof(t, leaf, proof, expected_root) ==
    verify_matches(verify_for(t.hasher, hash(t.hasher, leaf), proof, 0), expected_root)

(***************************************************************************)
(* The tree as its owner drives it: new, then build, root_hash,            *)
(* generate_proof and verify_proof in any order, each call running to      *)
(* completion (the code is single-threaded and synchronous).               *)
(***************************************************************************)
BlockSeqs == SeqsUpTo(BlockValues, MaxBlocks)

\* The proof of leaf i with entry k (one-based) replaced by digest d.
ReplaceEntry(proof, k, d) == [proof EXCEPT ![k] = d]

\* Digests a caller may hold besides the ones the tree handed out.
OtherDigests ==
    {hash(hasher, b) : b \in BlockValues}
        \cup {leaves[k].hash : k \in 1..Len(leaves)}
        \cup {root[k].hash : k \in 1..Len(root)}

\* The arguments verify_proof is called with: for a leaf index i, the block, the
\* generated proof and the root, with at most one of the three replaced.
VerifyArgs ==
    IF leaves = <<>>
    THEN {[leaf |-> b, proof |-> <<>>, expected_root |-> d] :
              b \in BlockValues, d \in OtherDigests}
    ELSE UNION {
           LET p == generate_proof(self, i)[1]
               r == root_hash(self)[1]
           IN  {[leaf |-> b, proof |-> p, expected_root |-> r] : b \in BlockValues}
               \cup {[leaf |-> lastBlocks[i + 1], proof |-> ReplaceEntry(p, k, d),
                      expected_root |-> r] : k \in 1..Len(p), d \in OtherDigests}
               \cup {[leaf |-> lastBlocks[i + 1], proof |-> p, expected_root |-> d] :
                      d \in OtherDigests}
           : i \in 0..(Len(leaves) - 1)}

\* No call is pending: new and build return nothing the caller has to take, and
\* a call that returned a value is over once the caller has taken the value.
NoCall == [op |-> "none"]

Ready == call = NoCall

Idle == [fn |-> "idle"]

Init ==
    /\ hasher \in Hashers
    /\ root = new(hasher).root
    /\ leaves = new(hasher).leaves
    /\ lastBlocks = <<>>
    /\ rebuilt = FALSE
    /\ call = NoCall
    /\ loop = Idle


Build ==
    /\ Ready
    /\ \E data_blocks \in BlockSeqs :
        LET t == build(self, data_blocks)
        IN  /\ root' = t.root
            /\ leaves' = t.leaves
            /\ lastBlocks' = data_blocks
            /\ rebuilt' = (leaves # <<>>)
            /\ call' = NoCall
            /\ UNCHANGED <<hasher, loop>>

RootHash ==
    /\ Ready
    /\ call' = [op |-> "root_hash", result |-> root_hash(self)]
    /\ UNCHANGED <<hasher, root, leaves, lastBlocks, rebuilt, loop>>

GenerateProof ==
    /\ Ready
    /\ \E index \in 0..MaxBlocks :
        /\ call' = [op |-> "generate_proof", index |-> index,
                    result |-> generate_proof(self, index)]
        /\ UNCHANGED <<hasher, root, leaves, lastBlocks, rebuilt, loop>>

VerifyProof ==
    /\ Ready
    /\ \E a \in VerifyArgs :
        /\ call' = [op |-> "verify_proof", leaf |-> a.leaf, proof |-> a.proof,
                    expected_root |-> a.expected_root,
                    result |-> verify_proof(self, a.leaf, a.proof, a.expected_root)]
        /\ UNCHANGED <<hasher, root, leaves, lastBlocks, rebuilt, loop>>

\* The caller takes the returned value; the tree is as the call left it.
Take ==
    /\ ~Ready
    /\ call' = NoCall
    /\ UNCHANGED <<hasher, root, leaves, lastBlocks, rebuilt, loop>>

Next == Build \/ RootHash \/ GenerateProof \/ VerifyProof \/ Take

Spec == Init /\ [][Next]_vars

(***************************************************************************)
(* The reference Merkle tree of a block sequence B, node by node from the  *)
(* root down, with which the claims compare what the code built.           *)
(***************************************************************************)
\* a <= b for byte sequences, lexicographically.
RefLexLeq(a, b) ==
    \/ Len(a) <= Len(b) /\ \A k \in 1..Len(a) : a[k] = b[k]
    \/ \E p \in 1..Len(a) :
          /\ p <= Len(b)
          /\ \A k \in 1..(p - 1) : a[k] = b[k]
          /\ a[p] < b[p]

RefCombine(a, b) == IF RefLexLeq(a, b) THEN a \o b ELSE b \o a

\* The number of nodes of level l above n leaves.
RECURSIVE RefSize(_, _)
RefSize(n, l) == IF l = 0 THEN n ELSE (RefSize(n, l - 1) + 1) \div 2

\* The level of the root above n >= 1 leaves.
RefHeight(n) == CHOOSE l \in 0..n : RefSize(n, l) = 1 /\ \A m \in 0..(l - 1) : RefSize(n, m) > 1

\* The partner of node k (zero-based) in a level of size nodes.
RefSibling(k, size) == IF k % 2 = 1 THEN k - 1 ELSE IF k + 1 < size THEN k + 1 ELSE k

\* The digest of node k (zero-based) of level l.
RECURSIVE RefNode(_, _, _, _)
RefNode(h, B, l, k) ==
    IF l = 0 THEN hash(h, B[k + 1])
    ELSE hash(h, RefCombine(RefNode(h, B, l - 1, 2 * k),
                            RefNode(h, B, l - 1, RefSibling(2 * k, RefSize(Len(B), l - 1)))))

RefRoot(h, B) == RefNode(h, B, RefHeight(Len(B)), 0)

RECURSIVE Pow2(_)
Pow2(k) == IF k = 0 THEN 1 ELSE 2 * Pow2(k - 1)

\* The inclusion proof of leaf i (zero-based): the partner's digest at every level
\* below the root, leaf level first.
RefProof(h, B, i) ==
    [k \in 1..RefHeight(Len(B)) |->
        RefNode(h, B, k - 1, RefSibling(i \div Pow2(k - 1), RefSize(Len(B), k - 1)))]

\* The number of levels build adds above the leaves.
RECURSIVE levels_built(_, _)
levels_built(h, nodes) ==
    IF Len(nodes) > 1 THEN 1 + levels_built(h, build_level(h, nodes)) ELSE 0

ValidIndices == 0..(Len(lastBlocks) - 1)

\* The call in `call` is verify_proof(B[i], generate_proof(i), root_hash()).
HonestVerify(i) ==
    /\ call.op = "verify_proof"
    /\ i \in ValidIndices
    /\ call.leaf = lastBlocks[i + 1]
    /\ Some(call.proof) = generate_proof(self, i)
    /\ Some(call.expected_root) = root_hash(self)

(***************************************************************************)
(* C1: round trip. After build(B), B non-empty, verify_proof(B[i],         *)
(* generate_proof(i), root_hash()) returns true for every valid index i,   *)
(* whatever the hasher.                                                    *)
(***************************************************************************)
C1_RoundTrip ==
    \A i \in ValidIndices : HonestVerify(i) => call.result = TRUE

\* The last of three leaves, paired with itself, verified under a hasher whose
\* digests are order-sensitive and with a left digest above the right one.
C1_Witness ==
    /\ Len(lastBlocks) = 3
    /\ hasher = "poly16"
    /\ LexLess(leaves[2].hash, leaves[1].hash)
    /\ HonestVerify(2)
    /\ call.result = TRUE

(***************************************************************************)
(* C2: after build(B), B non-empty, root_hash() is the reference root of   *)
(* B: leaf digests in input order, pairs left to right, the last node of   *)
(* an odd level paired with itself, parent = Hash(smaller || larger).      *)
(***************************************************************************)
C2_ReferenceRoot ==
    lastBlocks # <<>> =>
        /\ root_hash(self) = Some(RefRoot(hasher, lastBlocks))
        /\ Len(lastBlocks) = 1 => root_hash(self) = Some(hash(hasher, lastBlocks[1]))

C2_Witness ==
    /\ Len(lastBlocks) = 3
    /\ hasher = "poly16"
    /\ LexLess(leaves[2].hash, leaves[1].hash)
    /\ call.op = "root_hash"
    /\ call.result = Some(RefRoot(hasher, lastBlocks))

(***************************************************************************)
(* C3: for four blocks the root is H(H(H(b1)||H(b2)) || H(H(b3)||H(b4)))   *)
(* with every concatenation left child first, unsorted. This is what       *)
(* test_merkle_tree_multiple_blocks asserts; build sorts each pair.        *)
(***************************************************************************)
PositionalRoot4(h, B) ==
    hash(h, hash(h, hash(h, B[1]) \o hash(h, B[2]))
               \o hash(h, hash(h, B[3]) \o hash(h, B[4])))

C3_PositionalRoot ==
    Len(lastBlocks) = 4 => root_hash(self) = Some(PositionalRoot4(hasher, lastBlocks))

(***************************************************************************)
(* What a hasher is asked to hash, and what it means for it to be          *)
(* collision-free with outputs of one length on those inputs.              *)
(***************************************************************************)
\* The inputs build hashes for B: the blocks and, per parent, its children's digests.
BuildInputs(h, B) ==
    IF B = <<>> THEN {} ELSE
    {B[k] : k \in 1..Len(B)} \cup
    UNION {{RefCombine(RefNode(h, B, l - 1, 2 * k),
                       RefNode(h, B, l - 1, RefSibling(2 * k, RefSize(Len(B), l - 1)))) :
               k \in 0..(RefSize(Len(B), l) - 1)} :
           l \in 1..RefHeight(Len(B))}

\* The inputs verify_proof hashes: the leaf and, per proof entry, the pair.
VerifyInputs(h, leaf, proof) ==
    {leaf} \cup
    {verify_combined_hash(verify_for(h, hash(h, leaf), SubSeq(proof, 1, k - 1), 0), proof[k]) :
        k \in 1..Len(proof)}

\* D is the hasher restricted to a set of inputs: [x \in Q |-> hash(h, x)].
CollisionFree(D) == \A x, y \in DOMAIN D : D[x] = D[y] => x = y

FixedLength(D) == \A x, y \in DOMAIN D : Len(D[x]) = Len(D[y])

\* The call in `call` is the honest call for leaf i with only the leaf data changed.
LeafTampered(i) ==
    /\ call.op = "verify_proof"
    /\ i \in ValidIndices
    /\ call.leaf # lastBlocks[i + 1]
    /\ Some(call.proof) = generate_proof(self, i)
    /\ Some(call.expected_root) = root_hash(self)

\* ... with only one proof entry changed, to another digest of the same length.
EntryTampered(i) ==
    /\ call.op = "verify_proof"
    /\ i \in ValidIndices
    /\ call.leaf = lastBlocks[i + 1]
    /\ LET p == generate_proof(self, i)[1]
       IN  /\ Len(call.proof) = Len(p)
           /\ \E k \in 1..Len(p) :
                 /\ call.proof[k] # p[k]
                 /\ Len(call.proof[k]) = Len(p[k])
                 /\ \A j \in 1..Len(p) : j # k => call.proof[j] = p[j]
    /\ Some(call.expected_root) = root_hash(self)

\* ... with only the expected root changed.
RootTampered(i) ==
    /\ call.op = "verify_proof"
    /\ i \in ValidIndices
    /\ call.leaf = lastBlocks[i + 1]
    /\ Some(call.proof) = generate_proof(self, i)
    /\ Some(call.expected_root) # root_hash(self)

\* The hasher is collision-free, with outputs of one length, on everything the
\* build and the verification in `call` hashed.
IdealHasher ==
    LET Q == BuildInputs(hasher, lastBlocks)
                 \cup VerifyInputs(hasher, call.leaf, call.proof)
        D == [x \in Q |-> hash(hasher, x)]
    IN  CollisionFree(D) /\ FixedLength(D)

(***************************************************************************)
(* C4: tamper detection. Under a collision-free hasher with fixed-length   *)
(* output, verify_proof returns false when exactly one of the leaf data,   *)
(* one proof entry (to a digest of the same length) or the expected root   *)
(* differs from B[i], generate_proof(i), root_hash().                      *)
(***************************************************************************)
\* Stated from the result: a call that returned true was no such tampering.
C4_TamperDetected ==
    (call.op = "verify_proof" /\ call.result = TRUE) =>
        \A i \in ValidIndices :
            ~((LeafTampered(i) \/ EntryTampered(i) \/ RootTampered(i)) /\ IdealHasher)

\* A proof of two entries whose second entry was replaced, rejected.
C4_Witness ==
    /\ Len(lastBlocks) >= 3
    /\ EntryTampered(0)
    /\ call.proof[2] # generate_proof(self, 0)[1][2]
    /\ IdealHasher
    /\ call.result = FALSE

(***************************************************************************)
(* C5: generate_proof(i) is one digest per level below the root, leaf      *)
(* level first: at level k the partner of node idx_k = floor(i / 2^k),     *)
(* which is idx_k + 1 for an even idx_k (idx_k itself when it is the last  *)
(* node of an odd level) and idx_k - 1 for an odd one. Its length is the   *)
(* number of levels built; for four blocks generate_proof(0) is            *)
(* [Hash(B[1]), digest of the parent of leaves 2 and 3] (zero-based).      *)
(***************************************************************************)
C5_ProofShape ==
    (call.op = "generate_proof" /\ call.index \in ValidIndices) =>
        /\ call.result = Some(RefProof(hasher, lastBlocks, call.index))
        /\ Len(call.result[1]) = levels_built(hasher, leaves)
        /\ (Len(lastBlocks) = 4 /\ call.index = 0) =>
              call.result[1] = <<hash(hasher, lastBlocks[2]),
                                 hash(hasher, RefCombine(hash(hasher, lastBlocks[3]),
                                                         hash(hasher, lastBlocks[4])))>>

\* The last of three leaves: its own digest, then the digest of the first pair.
C5_Witness ==
    /\ call.op = "generate_proof"
    /\ Len(lastBlocks) = 3
    /\ call.index = 2
    /\ lastBlocks[1] # lastBlocks[3]
    /\ call.result = Some(<<hash(hasher, lastBlocks[3]),
                            hash(hasher, RefCombine(hash(hasher, lastBlocks[1]),
                                                    hash(hasher, lastBlocks[2])))>>)

(***************************************************************************)
(* C6: generate_proof(index) returns None exactly when index is at or      *)
(* beyond the number of blocks of the most recent build (0 before any      *)
(* build), and Some proof below it.                                        *)
(***************************************************************************)
C6_NoneIffOutOfRange ==
    call.op = "generate_proof" =>
        /\ call.result = None <=> call.index >= Len(lastBlocks)
        /\ call.index < Len(lastBlocks) => Len(call.result) = 1

\* The first index past the leaves of a built tree is refused.
C6_Witness ==
    /\ call.op = "generate_proof"
    /\ Len(lastBlocks) = 2
    /\ call.index = 2
    /\ call.result = None

(***************************************************************************)
(* C7: in every state the root is absent iff no leaves are stored, which   *)
(* is iff the tree was never built or last built from zero blocks; the     *)
(* stored leaves are one per block of the most recent build, in order.     *)
(***************************************************************************)
C7_RootIffLeaves ==
    /\ root = None <=> leaves = <<>>
    /\ root_hash(self) = None <=> lastBlocks = <<>>
    /\ Len(leaves) = Len(lastBlocks)
    /\ \A k \in 1..Len(leaves) :
          leaves[k] = MerkleNode(hash(hasher, lastBlocks[k]), None, None)

\* A tree emptied by build([]) after it held leaves.
C7_Witness ==
    /\ rebuilt
    /\ lastBlocks = <<>>
    /\ root = None
    /\ leaves = <<>>

(***************************************************************************)
(* C8: build replaces the previous state. After any sequence of builds     *)
(* ending with build(B), the tree, root_hash() and generate_proof(i) are   *)
(* what a freshly constructed tree gives after build(B).                   *)
(***************************************************************************)
FreshlyBuilt == build(new(hasher), lastBlocks)

C8_BuildReplaces ==
    /\ root = FreshlyBuilt.root
    /\ leaves = FreshlyBuilt.leaves
    /\ call.op = "root_hash" => call.result = root_hash(FreshlyBuilt)
    /\ call.op = "generate_proof" => call.result = generate_proof(FreshlyBuilt, call.index)

\* A proof handed out by a tree that was built over an earlier, non-empty build.
C8_Witness ==
    /\ rebuilt
    /\ call.op = "generate_proof"
    /\ Len(lastBlocks) = 2
    /\ call.index = 1
    /\ call.result = generate_proof(FreshlyBuilt, 1)
    /\ call.result # None

(***************************************************************************)
(* Odd-count duplication seen from outside: the block sequence of the most *)
(* recent build followed by a copy of its last block, and the tree a build *)
(* of that longer sequence gives.                                          *)
(***************************************************************************)
Extended == Append(lastBlocks, lastBlocks[Len(lastBlocks)])

ExtendedTree == build(new(hasher), Extended)

(***************************************************************************)
(* C11 as it is stated: odd-count duplication. For B of odd length n >= 3, *)
(* build(B) and build(B followed by a copy of B[n-1]) have the same root   *)
(* digest and generate_proof(n-1) is the same proof on both; for n = 1 the *)
(* two root digests differ.                                                *)
(***************************************************************************)
C11_RootsDifferForOne ==
    LET n == Len(lastBlocks) IN
    /\ (n >= 3 /\ n % 2 = 1) =>
          /\ root_hash(self) = root_hash(ExtendedTree)
          /\ (call.op = "generate_proof" /\ call.index = n - 1) =>
                call.result = generate_proof(ExtendedTree, n - 1)
    /\ n = 1 => root_hash(self) # root_hash(ExtendedTree)

(***************************************************************************)
(* C11: odd-count duplication. For B of odd length n >= 3, build(B) and    *)
(* build(B followed by a copy of B[n-1]) have the same root digest, and    *)
(* generate_proof(n-1) is the same proof on both, whatever the hasher. For *)
(* n = 1 the single leaf is the root, not duplicated: the root node is the *)
(* childless leaf with digest Hash(b), while the root node of b, b is a    *)
(* parent of the two leaves with digest Hash(Hash(b) || Hash(b)); the two  *)
(* root nodes differ, and the proof of leaf 0 is empty on the one tree and *)
(* [Hash(b)] on the other.                                                 *)
(***************************************************************************)
C11_OddDuplication ==
    LET n == Len(lastBlocks) IN
    /\ (n >= 3 /\ n % 2 = 1) =>
          /\ root_hash(self) = root_hash(ExtendedTree)
          /\ root_hash(self) # None
          /\ (call.op = "generate_proof" /\ call.index = n - 1) =>
                /\ call.result = generate_proof(ExtendedTree, n - 1)
                /\ call.result # None
    /\ n = 1 =>
          LET d == hash(hasher, lastBlocks[1]) IN
          /\ root = Some(leaves[1])
          /\ root[1].left = None /\ root[1].right = None
          /\ root_hash(self) = Some(d)
          /\ ExtendedTree.root[1].left = Some(leaves[1])
          /\ ExtendedTree.root[1].right = Some(leaves[1])
          /\ root_hash(ExtendedTree) = Some(hash(hasher, d \o d))
          /\ root # ExtendedTree.root
          /\ (call.op = "generate_proof" /\ call.index = 0) =>
                /\ call.result = Some(<<>>)
                /\ generate_proof(ExtendedTree, 0) = Some(<<d>>)

\* Three blocks, not all alike, and the proof of the last one: root and proof
\* are those of the four blocks with the last one repeated, under a hasher
\* that tells the order of a pair apart.
C11_Witness ==
    /\ Len(lastBlocks) = 3
    /\ hasher = "poly16"
    /\ lastBlocks[1] # lastBlocks[3]
    /\ Len(Extended) = 4
    /\ call.op = "generate_proof"
    /\ call.index = 2
    /\ call.result = generate_proof(ExtendedTree, 2)
    /\ Len(call.result[1]) = 2
    /\ root_hash(self) = root_hash(ExtendedTree)

(***************************************************************************)
(* sha256.rs: the padding of a message and its split into the 64-byte      *)
(* blocks handed to compress. Lengths are usize and u64 in the source; the *)
(* messages of the model are far below the length at which `len * 8`       *)
(* would wrap.                                                             *)
(***************************************************************************)
\* Mutant: zero bytes are appended up to a whole block, not up to 448 bits.
pad_more_zeros_whole_block(padded) == (Len(padded) * 8) % 512 # 0

\* pad_message, line 56: the condition of the padding loop.
pad_more_zeros(padded) == (Len(padded) * 8) % 512 # 448

\* pad_message, lines 56-58: the padding loop.
RECURSIVE pad_while(_)
pad_while(padded) ==
    IF pad_more_zeros(padded) THEN pad_while(Append(padded, 0)) ELSE padded

\* u64::to_be_bytes, most significant byte first (n bytes of v).
RECURSIVE to_be_bytes(_, _)
to_be_bytes(v, n) ==
    IF n = 0 THEN <<>> ELSE Append(to_be_bytes(v \div 256, n - 1), v % 256)

\* pad_message, lines 61-62: the message length in bits, as eight bytes.
pad_length(message) == to_be_bytes(Len(message) * 8, 8)

\* pad_message
pad_message(message) == pad_while(Append(message, 128)) \o pad_length(message)

\* slice::chunks: consecutive pieces of `size` elements, the last one maybe shorter.
chunks(s, size) ==
    [j \in 1..((Len(s) + size - 1) \div size) |->
        SubSeq(s, (j - 1) * size + 1, IF j * size < Len(s) THEN j * size ELSE Len(s))]

\* sha256, lines 21-26: the blocks compress is called with.
sha256_blocks(input) == chunks(pad_message(input), 64)

\* The messages hashed: every length up to MaxMsgLen, filled with one byte.
Messages == {[j \in 1..n |-> b] : n \in 0..MaxMsgLen, b \in FillBytes}

\* sha256 up to its calls of compress: the padded message and its blocks.
Sha256 ==
    /\ call = NoCall
    /\ \E input \in Messages :
          call' = [op |-> "sha256", input |-> input, padded |-> pad_message(input),
                   blocks |-> sha256_blocks(input)]
    /\ UNCHANGED <<hasher, root, leaves, lastBlocks, rebuilt, loop>>

NextSha == Sha256 \/ Take

SpecSha == Init /\ [][NextSha]_vars

\* The least number of zero bytes that brings n + 1 bytes to 56 modulo 64.
ZerosNeeded(n) == CHOOSE z \in 0..63 : (n + 1 + z) % 64 = 56

(***************************************************************************)
(* C10: pad_message returns the message, the byte 0x80, the least number   *)
(* of zero bytes that makes the length 56 modulo 64, then the bit length   *)
(* n * 8 as eight big-endian bytes; the result is a positive multiple of   *)
(* 64 bytes long, so every block sha256 hands to compress has 64 bytes.    *)
(***************************************************************************)
C10_Padding ==
    call.op = "sha256" =>
        LET n    == Len(call.input)
            bits == n * 8
            z    == ZerosNeeded(n)
        IN  /\ call.padded = call.input \o <<128>> \o [j \in 1..z |-> 0]
                               \o <<0, 0, 0, 0, 0, bits \div 65536, (bits \div 256) % 256,
                                    bits % 256>>
            /\ Len(call.padded) % 64 = 0
            /\ Len(call.padded) > 0
            /\ Len(call.blocks) = Len(call.padded) \div 64
            /\ \A j \in 1..Len(call.blocks) : Len(call.blocks[j]) = 64

\* A 56-byte message: 63 zero bytes and a second block.
C10_Witness ==
    /\ call.op = "sha256"
    /\ Len(call.input) = 56
    /\ Len(call.padded) = 128
    /\ call.padded[57] = 128
    /\ call.padded[127] = 1
    /\ call.padded[128] = 192
    /\ Len(call.blocks) = 2

(***************************************************************************)
(* The loops run one pass at a time. `loop` holds the locals of the call   *)
(* in progress; a finished call leaves what it returned and how many       *)
(* passes its loop made. Any call may start in any state of the tree: a    *)
(* build on a tree that already holds a root, a padding beside a tree with *)
(* leaves. The code is single-threaded and synchronous, so a call in       *)
(* progress always takes its next step: weak fairness of the steps of the  *)
(* call in progress. Nothing obliges the owner of the tree to start        *)
(* another call.                                                           *)
(***************************************************************************)
\* The longest block sequence built, and the longest message padded, one pass
\* at a time: three blocks give an odd level and two passes, 56 bytes the
\* longest run of zero bytes.
MaxLoopBlocks == 3

MaxLoopMsgLen == 56

\* The block sequences built one pass at a time: every sequence of blocks up to
\* MaxLoopBlocks.
LoopBlockSeqs == SeqsUpTo(BlockValues, MaxLoopBlocks)

\* The messages padded one byte at a time: every length up to MaxLoopMsgLen.
LoopMessages == {[j \in 1..n |-> 0] : n \in 0..MaxLoopMsgLen}

Running(fn) == loop.fn = fn

Finished(fn) == loop.fn = "done" /\ loop.of = fn

\* build, lines 35-44: the leaves are stored and the loop starts from them. The
\* root of an earlier build stays until line 75.
LoopBuildStart ==
    /\ loop = Idle
    /\ \E data_blocks \in LoopBlockSeqs :
          /\ leaves' = build_store_leaves(self, build_leaves(hasher, data_blocks))
          /\ loop' = [fn |-> "build", passes |-> 0, locals |-> [nodes |-> leaves']]
          /\ lastBlocks' = data_blocks
          /\ rebuilt' = (leaves # <<>>)
    /\ UNCHANGED <<hasher, root, call>>

\* build, lines 46-73: one pass of the while loop.
LoopBuildPass ==
    /\ Running("build")
    /\ Len(loop.locals.nodes) > 1
    /\ loop' = [loop EXCEPT !.locals.nodes = build_level(hasher, @), !.passes = @ + 1]
    /\ UNCHANGED <<hasher, root, leaves, lastBlocks, rebuilt, call>>

\* build, line 75: the loop is left and the root stored.
LoopBuildExit ==
    /\ Running("build")
    /\ ~(Len(loop.locals.nodes) > 1)
    /\ root' = build_root(self, loop.locals.nodes)
    /\ loop' = [fn |-> "done", of |-> "build", passes |-> loop.passes,
                size |-> Len(loop.locals.nodes)]
    /\ UNCHANGED <<hasher, leaves, lastBlocks, rebuilt, call>>

\* generate_proof, lines 85-91: None at once, or the loop starts from the leaves.
LoopProofStart ==
    /\ loop = Idle
    /\ \E index \in 0..MaxBlocks :
          loop' = IF proof_out_of_range(self, index)
                  THEN [fn |-> "done", of |-> "generate_proof", passes |-> 0,
                        size |-> 0, result |-> None]
                  ELSE [fn |-> "generate_proof", passes |-> 0,
                        locals |-> [nodes |-> leaves, proof |-> <<>>,
                                    current_index |-> index]]
    /\ UNCHANGED <<hasher, root, leaves, lastBlocks, rebuilt, call>>

\* generate_proof, lines 102-150: one pass of the while loop.
LoopProofPass ==
    /\ Running("generate_proof")
    /\ Len(loop.locals.nodes) > 1
    /\ loop' = [loop EXCEPT !.locals = proof_level(hasher, @), !.passes = @ + 1]
    /\ UNCHANGED <<hasher, root, leaves, lastBlocks, rebuilt, call>>

\* generate_proof, line 152
LoopProofExit ==
    /\ Running("generate_proof")
    /\ ~(Len(loop.locals.nodes) > 1)
    /\ loop' = [fn |-> "done", of |-> "generate_proof", passes |-> loop.passes,
                size |-> Len(loop.locals.nodes), result |-> Some(loop.locals.proof)]
    /\ UNCHANGED <<hasher, root, leaves, lastBlocks, rebuilt, call>>

\* verify_proof, line 157: the leaf is hashed.
LoopVerifyStart ==
    /\ loop = Idle
    /\ \E a \in VerifyArgs :
          loop' = [fn |-> "verify_proof", hash |-> hash(hasher, a.leaf), proof |-> a.proof,
                   expected_root |-> a.expected_root, passes |-> 0]
    /\ UNCHANGED <<hasher, root, leaves, lastBlocks, rebuilt, call>>

\* verify_proof, lines 179-188: one pass of the loop, one proof entry hashed.
LoopVerifyPass ==
    /\ Running("verify_proof")
    /\ loop.passes < Len(loop.proof)
    /\ loop' = [loop EXCEPT !.hash = verify_step(hasher, loop.hash, loop.proof[loop.passes + 1]),
                            !.passes = @ + 1]
    /\ UNCHANGED <<hasher, root, leaves, lastBlocks, rebuilt, call>>

\* verify_proof, line 197
LoopVerifyExit ==
    /\ Running("verify_proof")
    /\ ~(loop.passes < Len(loop.proof))
    /\ loop' = [fn |-> "done", of |-> "verify_proof", passes |-> loop.passes,
                size |-> Len(loop.proof),
                result |-> verify_matches(loop.hash, loop.expected_root)]
    /\ UNCHANGED <<hasher, root, leaves, lastBlocks, rebuilt, call>>

\* pad_message, lines 50-53: the message and the byte 0x80. The padding reads
\* nothing of the tree and runs beside any tree.
LoopPadStart ==
    /\ loop = Idle
    /\ \E message \in LoopMessages :
          loop' = [fn |-> "pad_message", message |-> message,
                   padded |-> Append(message, 128), passes |-> 0]
    /\ UNCHANGED <<hasher, root, leaves, lastBlocks, rebuilt, call>>

\* pad_message, lines 56-58: one pass of the padding loop, one zero byte.
LoopPadPass ==
    /\ Running("pad_message")
    /\ pad_more_zeros(loop.padded)
    /\ loop' = [loop EXCEPT !.padded = Append(@, 0), !.passes = @ + 1]
    /\ UNCHANGED <<hasher, root, leaves, lastBlocks, rebuilt, call>>

\* pad_message, lines 61-64
LoopPadExit ==
    /\ Running("pad_message")
    /\ ~pad_more_zeros(loop.padded)
    /\ loop' = [fn |-> "done", of |-> "pad_message", passes |-> loop.passes,
                size |-> Len(loop.message),
                result |-> loop.padded \o pad_length(loop.message)]
    /\ UNCHANGED <<hasher, root, leaves, lastBlocks, rebuilt, call>>

\* The call has returned; the next one may start.
LoopReturn ==
    /\ loop.fn = "done"
    /\ loop' = Idle
    /\ UNCHANGED <<hasher, root, leaves, lastBlocks, rebuilt, call>>

NextLoop ==
    \/ LoopBuildStart \/ LoopBuildPass \/ LoopBuildExit
    \/ LoopProofStart \/ LoopProofPass \/ LoopProofExit
    \/ LoopVerifyStart \/ LoopVerifyPass \/ LoopVerifyExit
    \/ LoopPadStart \/ LoopPadPass \/ LoopPadExit
    \/ LoopReturn

\* The steps of a call in progress.
LoopStep ==
    \/ LoopBuildPass \/ LoopBuildExit
    \/ LoopProofPass \/ LoopProofExit
    \/ LoopVerifyPass \/ LoopVerifyExit
    \/ LoopPadPass \/ LoopPadExit

\* The tree stepped through is built over one hasher, as the tree of main is:
\* the one of the three with digests of one length that tell the order of a
\* pair apart. No loop reads a digest for anything but the order of a pair.
LoopHashers == {"poly16"}

InitLoop == Init /\ hasher \in LoopHashers

SpecLoop == InitLoop /\ [][NextLoop]_vars /\ WF_vars(LoopStep)

(***************************************************************************)
(* C9: every operation terminates. A pass of the level loop of build and   *)
(* of generate_proof turns n > 1 nodes into ceil(n / 2) < n nodes and the  *)
(* loop is left with at most one node; verify_proof hashes once per proof  *)
(* entry; the padding loop appends fewer than 64 zero bytes; and every     *)
(* call that started returns.                                              *)
(***************************************************************************)
LevelLoop == loop.fn \in {"build", "generate_proof"}

C9_Terminates ==
    /\ [][(LevelLoop /\ loop'.fn = loop.fn) =>
              /\ Len(loop.locals.nodes) > 1
              /\ Len(loop'.locals.nodes) = (Len(loop.locals.nodes) + 1) \div 2
              /\ Len(loop'.locals.nodes) < Len(loop.locals.nodes)]_vars
    /\ []((Finished("build") \/ (Finished("generate_proof") /\ loop.result # None))
              => loop.size <= 1)
    /\ [](Finished("verify_proof") => loop.passes = loop.size)
    /\ [](Finished("pad_message") => loop.passes < 64)
    /\ (loop.fn \notin {"idle", "done"}) ~> (loop.fn = "done")

\* A build of three blocks, the first digest above the second, over an earlier,
\* non-empty build, returned after two passes of its loop.
C9_Witness ==
    /\ Finished("build")
    /\ rebuilt
    /\ Len(lastBlocks) = 3
    /\ Len(leaves) = 3
    /\ LexLess(leaves[2].hash, leaves[1].hash)
    /\ loop.passes = 2
    /\ loop.size = 1
    /\ root # None

=============================================================================
